---------------------------- MODULE Spec2Model ----------------------------
(***************************************************************************)
(* Model of the interactive config selection menu of emubox                *)
(* (src/emubox.c, emu_select_list and the helpers it calls).               *)
(*                                                                         *)
(* A file name is a sequence of byte values (the bytes before the NUL).    *)
(* The config directory is a sequence of directory entries in the order    *)
(* readdir() returns them.  C array index i is position i + 1 of the       *)
(* sequence that models the array.                                         *)
(*                                                                         *)
(* Environment assumptions: calloc() succeeds, and $HOME/.emubox can still *)
(* be resolved when Enter is pressed (emu_get_directory at line 602).      *)
(***************************************************************************)
EXTENDS Integers, Sequences, FiniteSets, TLC

\* ------------------------------------------------------------------ bounds

\* Largest number of regular files in a generated directory.
MaxEntries == 32

\* Longest directory listing enumerated in every readdir() order.
MaxListing == 3

\* The render loop rejects a row whose 1-based number exceeds 9999
\* (src/emubox.c:506).  The model keeps the comparison and scales the number:
\* like 9999 it is one below a multiple of the page size.
OutOfRange == 29

\* ------------------------------------------------------- program constants

\* Rows per page: "new_idx < (xs + 10)", "xs += 10", "xs -= 10".
PageStep == 10

\* emu_content_len: "clinfo->column_sz += 5" and "clinfo->row_sz += 13".
ColumnMargin == 5
RowMargin == 13

DT_REG == "DT_REG"
DT_DIR == "DT_DIR"

\* --------------------------------------------------------------- file names

Dot == <<46>>
DotDot == <<46, 46>>
NameA == <<97>>
NameACfg == <<97, 46, 99, 102, 103>>
NameMCfg == <<109, 46, 99, 102, 103>>
NameZCfg == <<122, 46, 99, 102, 103>>
NameSub == <<100>>

\* Name of the k-th generated config file: two decimal digits.
GenName(k) == <<48 + (k \div 10), 48 + (k % 10)>>

Dirent(name, type) == [d_name |-> name, d_type |-> type]

\* The entries small directories are made of.
SmallDirents ==
    { Dirent(Dot, DT_DIR), Dirent(DotDot, DT_DIR), Dirent(NameSub, DT_DIR),
      Dirent(NameA, DT_REG), Dirent(NameACfg, DT_REG),
      Dirent(NameMCfg, DT_REG), Dirent(NameZCfg, DT_REG) }

\* Every readdir() order of every directory of at most MaxListing entries.
SmallListings ==
    UNION { { s \in [1..n -> SmallDirents] :
                \A i, j \in 1..n : i # j => s[i] # s[j] } : n \in 0..MaxListing }

\* A directory of n regular files, returned by readdir() in descending order
\* after "." and "..".
GenListing(n) ==
    <<Dirent(Dot, DT_DIR), Dirent(DotDot, DT_DIR)>> \o
    [i \in 1..n |-> Dirent(GenName(n - i), DT_REG)]

GenListings == { GenListing(n) : n \in 0..MaxEntries }

\* The config directory: missing (stat() fails), unreadable (opendir() fails)
\* or present with its entries.
NoDir == [status |-> "NoDir", dirents |-> <<>>]
Unreadable == [status |-> "Unreadable", dirents |-> <<>>]
Directory(dirents) == [status |-> "Ok", dirents |-> dirents]

Stores ==
    { Directory(d) : d \in SmallListings \cup GenListings } \cup {NoDir, Unreadable}

\* ------------------------------------------------------------ pure helpers

\* strcmp(): difference of the first differing bytes, the NUL terminator
\* counting as byte 0.
RECURSIVE strcmp(_, _)
strcmp(s0, s1) ==
    IF s0 = <<>> /\ s1 = <<>> THEN 0
    ELSE IF s0 = <<>> THEN 0 - Head(s1)
    ELSE IF s1 = <<>> THEN Head(s0)
    ELSE IF Head(s0) # Head(s1) THEN Head(s0) - Head(s1)
    ELSE strcmp(Tail(s0), Tail(s1))

\* qsort_compare with its operands exchanged.
qsort_compare_swapped(s0, s1) == strcmp(s1, s0)

qsort_compare(s0, s1) == strcmp(s0, s1)

strlen(s) == Len(s)

\* IsListed without the d_type test: every entry but "." and ".." is listed.
IsListedAnyType(den) ==
    ~(strcmp(den.d_name, Dot) = 0 \/ strcmp(den.d_name, DotDot) = 0)

\* The filter both readdir() loops apply: skip "." and "..", keep DT_REG.
IsListed(den) ==
    /\ ~(strcmp(den.d_name, Dot) = 0 \/ strcmp(den.d_name, DotDot) = 0)
    /\ den.d_type = DT_REG

\* emu_content_len: one pass over the directory.
RECURSIVE ContentLenLoop(_, _)
ContentLenLoop(dir, cl) ==
    IF dir = <<>> THEN cl
    ELSE LET den == Head(dir)
             tsz == strlen(den.d_name)
         IN  IF IsListed(den)
             THEN ContentLenLoop(Tail(dir),
                    [name_sz   |-> cl.name_sz + tsz,
                     column_sz |-> IF cl.column_sz < 10 THEN cl.column_sz + 1
                                   ELSE cl.column_sz,
                     row_sz    |-> IF tsz > cl.row_sz THEN tsz ELSE cl.row_sz])
             ELSE ContentLenLoop(Tail(dir), cl)

emu_content_len(dir) ==
    LET cl == ContentLenLoop(dir, [name_sz |-> 0, column_sz |-> 0, row_sz |-> 0])
    IN  [name_sz   |-> cl.name_sz,
         column_sz |-> cl.column_sz + ColumnMargin,
         row_sz    |-> cl.row_sz + RowMargin]

\* The second readdir() loop of emu_select_list: the listed names in
\* enumeration order.
RECURSIVE ReadNames(_)
ReadNames(dir) ==
    IF dir = <<>> THEN <<>>
    ELSE IF IsListed(Head(dir)) THEN <<Head(dir).d_name>> \o ReadNames(Tail(dir))
    ELSE ReadNames(Tail(dir))

\* qsort(arr, pre_idx, sizeof(char *), qsort_compare), as an insertion sort:
\* the names of one directory are distinct, so the order compare defines is
\* total and every sorting algorithm gives this result.
RECURSIVE InsertSorted(_, _)
InsertSorted(x, s) ==
    IF s = <<>> THEN <<x>>
    ELSE IF qsort_compare(x, Head(s)) <= 0 THEN <<x>> \o s
    ELSE <<Head(s)>> \o InsertSorted(x, Tail(s))

RECURSIVE qsort(_)
qsort(s) == IF s = <<>> THEN <<>> ELSE InsertSorted(Head(s), qsort(Tail(s)))

\* -------------------------------------------------------------------- state

VARIABLES
    store,       \* the config directory
    is_settings, \* argument of emu_select_list
    pc,          \* position of the process
    clinfo,      \* struct content_len_info filled by emu_content_len
    arr,         \* the names stored in arr[0 .. pre_idx - 1]
    pre_idx,     \* number of names stored in arr
    xs,          \* index of the first row of the displayed page
    run_idx,     \* index of the highlighted entry
    end_page,    \* 1 once the render loop has met the NULL after the names
    ch,          \* the last key wgetch() returned
    term,        \* terminal mode: "cooked", "raw" (initscr .. endwin), "restored"
    rows,        \* rows the last render pass printed
    rendered,    \* a frame was drawn and shown to the user
    keysRead,    \* wgetch() returned at least once
    msgs,        \* diagnostics written to stderr, in order
    result,      \* "None", "Chosen" or "Cancelled"
    chosen,      \* arr[run_idx] as resolved after Enter
    launched     \* "none", "box" (emu_launch_box) or "settings"

vars == <<store, is_settings, pc, clinfo, arr, pre_idx, xs, run_idx, end_page,
          ch, term, rows, rendered, keysRead, msgs, result, chosen, launched>>

\* Variables of the pager proper.
nav == <<xs, run_idx, end_page>>

\* calloc(clinfo.name_sz + 1, sizeof(char *)): the slots of arr.
ArrSlots == clinfo.name_sz + 1

\* arr[i] == NULL.  The slots calloc() zeroed and no name was stored in are
\* NULL; a read past the allocation is undefined and yields either outcome.
ArrIsNull(i, garbage) ==
    IF i < pre_idx THEN FALSE
    ELSE IF i < ArrSlots THEN TRUE
    ELSE garbage

\* RenderLoop without the look-ahead at arr[new_idx + 1] (lines 518-521).
RECURSIVE RenderLoopNoLookahead(_, _, _)
RenderLoopNoLookahead(i, n, garbage) ==
    IF ~(i < xs + PageStep)
    THEN [end_page |-> end_page, abort |-> FALSE, rows |-> n]
    ELSE IF ArrIsNull(i, garbage)
    THEN [end_page |-> 1, abort |-> FALSE, rows |-> n]
    ELSE IF (i + 1) > OutOfRange
    THEN [end_page |-> end_page, abort |-> TRUE, rows |-> n + 1]
    ELSE RenderLoopNoLookahead(i + 1, n + 1, garbage)

\* RenderLoop with ">=" for ">" in the out of range test (line 506).
RECURSIVE RenderLoopOffByOne(_, _, _)
RenderLoopOffByOne(i, n, garbage) ==
    IF ~(i < xs + PageStep)
    THEN [end_page |-> end_page, abort |-> FALSE, rows |-> n]
    ELSE IF ArrIsNull(i, garbage)
    THEN [end_page |-> 1, abort |-> FALSE, rows |-> n]
    ELSE IF (i + 1) >= OutOfRange
    THEN [end_page |-> end_page, abort |-> TRUE, rows |-> n + 1]
    ELSE IF ArrIsNull(i + 1, garbage)
    THEN [end_page |-> 1, abort |-> FALSE, rows |-> n + 1]
    ELSE RenderLoopOffByOne(i + 1, n + 1, garbage)

\* The for loop at lines 462-522, entered with new_idx = i after n rows were
\* printed.  Yields the value of end_page after the loop, whether the loop
\* left through the "out of range" branch, and the rows printed.
RECURSIVE RenderLoop(_, _, _)
RenderLoop(i, n, garbage) ==
    IF ~(i < xs + PageStep)
    THEN [end_page |-> end_page, abort |-> FALSE, rows |-> n]
    ELSE IF ArrIsNull(i, garbage)
    THEN [end_page |-> 1, abort |-> FALSE, rows |-> n]
    ELSE IF (i + 1) > OutOfRange
    THEN [end_page |-> end_page, abort |-> TRUE, rows |-> n + 1]
    ELSE IF ArrIsNull(i + 1, garbage)
    THEN [end_page |-> 1, abort |-> FALSE, rows |-> n + 1]
    ELSE RenderLoop(i + 1, n + 1, garbage)

Init ==
    /\ store \in Stores
    /\ is_settings \in {0, 1}
    /\ pc = "start"
    /\ clinfo = [name_sz |-> 0, column_sz |-> 0, row_sz |-> 0]
    /\ arr = <<>>
    /\ pre_idx = 0
    /\ xs = 0
    /\ run_idx = 0
    /\ end_page = 0
    /\ ch = "NONE"
    /\ term = "cooked"
    /\ rows = 0
    /\ rendered = FALSE
    /\ keysRead = FALSE
    /\ msgs = <<>>
    /\ result = "None"
    /\ chosen = <<>>
    /\ launched = "none"

\* ------------------------------------------------------------ session start

\* emu_get_directory() and opendir() at the top of emu_select_list.
OpenDir ==
    /\ pc = "start"
    /\ \/ /\ store = NoDir
          /\ msgs' = Append(msgs, "config directory wasn't found")
          /\ pc' = "exit_failure"
       \/ /\ store = Unreadable
          /\ msgs' = Append(msgs, "missing config directory")
          /\ pc' = "exit_failure"
       \/ /\ store.status = "Ok"
          /\ msgs' = msgs
          /\ pc' = "opened"
    /\ UNCHANGED <<store, is_settings, clinfo, arr, pre_idx, nav, ch, term,
                   rows, rendered, keysRead, result, chosen, launched>>

\* emu_content_len(&clinfo): a pass over the directory through a handle of
\* its own.
ContentLen ==
    /\ pc = "opened"
    /\ clinfo' = emu_content_len(store.dirents)
    /\ pc' = "sized"
    /\ UNCHANGED <<store, is_settings, arr, pre_idx, nav, ch, term, rows,
                   rendered, keysRead, msgs, result, chosen, launched>>

\* calloc of arr, the readdir() loop that fills it, the empty check, qsort
\* and the ncurses setup (lines 398-451).
ReadEntries ==
    /\ pc = "sized"
    /\ LET names == ReadNames(store.dirents)
       IN  /\ pre_idx' = Len(names)
           /\ \/ /\ Len(names) = 0
                 /\ arr' = names
                 /\ msgs' = Append(msgs, "no configs are available")
                 /\ term' = term
                 /\ pc' = "returned"
              \/ /\ Len(names) # 0
                 /\ arr' = qsort(names)
                 /\ msgs' = msgs
                 /\ term' = "raw"
                 /\ pc' = "render"
    /\ xs' = 0
    /\ end_page' = 0
    /\ UNCHANGED <<store, is_settings, clinfo, run_idx, ch, rows, rendered,
                   keysRead, result, chosen, launched>>

\* ------------------------------------------------------------ the menu loop

\* The top of the for (;;) loop down to wgetch(): draw the page.
Render ==
    /\ pc = "render"
    /\ \E garbage \in BOOLEAN :
         LET r == RenderLoop(xs, 0, garbage)
         IN  /\ end_page' = r.end_page
             /\ rows' = r.rows
             /\ \/ /\ r.abort
                   /\ term' = "restored"
                   /\ msgs' = Append(msgs, "out of range")
                   /\ rendered' = rendered
                   /\ pc' = "returned"
                \/ /\ ~r.abort
                   /\ term' = term
                   /\ msgs' = msgs
                   /\ rendered' = TRUE
                   /\ pc' = "getch"
    /\ UNCHANGED <<store, is_settings, clinfo, arr, pre_idx, xs, run_idx, ch,
                   keysRead, result, chosen, launched>>

\* What every key that keeps the loop running leaves alone.
KeyFrame ==
    /\ keysRead' = TRUE
    /\ pc' = "render"
    /\ UNCHANGED <<store, is_settings, clinfo, arr, pre_idx, term, rows,
                   rendered, msgs, result, chosen, launched>>

\* case KEY_UP
KeyUp ==
    /\ pc = "getch"
    /\ ch' = "KEY_UP"
    /\ run_idx' = IF run_idx - 1 < 0 THEN 0 ELSE run_idx - 1
    /\ UNCHANGED <<xs, end_page>>
    /\ KeyFrame

\* KEY_DOWN with ">" for ">=" in the limit test (line 539).
KeyDownOffByOne ==
    /\ pc = "getch"
    /\ ch' = "KEY_DOWN"
    /\ run_idx' = IF run_idx + 1 > pre_idx THEN pre_idx - 1 ELSE run_idx + 1
    /\ UNCHANGED <<xs, end_page>>
    /\ KeyFrame

\* case KEY_DOWN
KeyDown ==
    /\ pc = "getch"
    /\ ch' = "KEY_DOWN"
    /\ run_idx' = IF run_idx + 1 >= pre_idx THEN pre_idx - 1 ELSE run_idx + 1
    /\ UNCHANGED <<xs, end_page>>
    /\ KeyFrame

\* case KEY_RIGHT
KeyRight ==
    /\ pc = "getch"
    /\ ch' = "KEY_RIGHT"
    /\ IF end_page = 0
       THEN /\ xs' = xs + PageStep
            /\ run_idx' = xs'
       ELSE UNCHANGED <<xs, run_idx>>
    /\ UNCHANGED end_page
    /\ KeyFrame

\* KEY_LEFT with ">=" for ">" in the test of xs (line 563).
KeyLeftAtZero ==
    /\ pc = "getch"
    /\ ch' = "KEY_LEFT"
    /\ IF xs >= 0
       THEN /\ xs' = xs - PageStep
            /\ run_idx' = xs'
            /\ end_page' = 0
       ELSE UNCHANGED <<xs, run_idx, end_page>>
    /\ KeyFrame

\* KEY_LEFT without "end_page = 0" (line 572).
KeyLeftKeepsFlag ==
    /\ pc = "getch"
    /\ ch' = "KEY_LEFT"
    /\ IF xs > 0
       THEN /\ xs' = xs - PageStep
            /\ run_idx' = xs'
            /\ end_page' = end_page
       ELSE UNCHANGED <<xs, run_idx, end_page>>
    /\ KeyFrame

\* case KEY_LEFT
KeyLeft ==
    /\ pc = "getch"
    /\ ch' = "KEY_LEFT"
    /\ IF xs > 0
       THEN /\ xs' = xs - PageStep
            /\ run_idx' = xs'
            /\ end_page' = 0
       ELSE UNCHANGED <<xs, run_idx, end_page>>
    /\ KeyFrame

\* default: any other key
KeyOther ==
    /\ pc = "getch"
    /\ ch' = "OTHER"
    /\ UNCHANGED nav
    /\ KeyFrame

\* KEY_BACKSPACE without the endwin() call (line 579).
KeyBackspaceNoEndwin ==
    /\ pc = "getch"
    /\ ch' = "KEY_BACKSPACE"
    /\ keysRead' = TRUE
    /\ result' = "Cancelled"
    /\ pc' = "exit_success"
    /\ UNCHANGED <<store, is_settings, clinfo, arr, pre_idx, nav, term, rows,
                   rendered, msgs, chosen, launched>>

\* KEY_BACKSPACE without _Exit() (line 585): the break leaves the switch only
\* and the loop goes on.
KeyBackspaceNoExit ==
    /\ pc = "getch"
    /\ ch' = "KEY_BACKSPACE"
    /\ keysRead' = TRUE
    /\ term' = "restored"
    /\ result' = "Cancelled"
    /\ pc' = "render"
    /\ UNCHANGED <<store, is_settings, clinfo, arr, pre_idx, nav, rows,
                   rendered, msgs, chosen, launched>>

\* case KEY_BACKSPACE: endwin(), free everything, _Exit(EXIT_SUCCESS).
KeyBackspace ==
    /\ pc = "getch"
    /\ ch' = "KEY_BACKSPACE"
    /\ keysRead' = TRUE
    /\ term' = "restored"
    /\ result' = "Cancelled"
    /\ pc' = "exit_success"
    /\ UNCHANGED <<store, is_settings, clinfo, arr, pre_idx, nav, rows,
                   rendered, msgs, chosen, launched>>

\* ch == 10: leave the loop, endwin(), resolve arr[run_idx], stat() it and
\* launch (lines 595-642).  statOk: the file is still there.
KeyEnter ==
    /\ pc = "getch"
    /\ ch' = "ENTER"
    /\ keysRead' = TRUE
    /\ term' = "restored"
    /\ IF run_idx < pre_idx
       THEN /\ result' = "Chosen"
            /\ chosen' = arr[run_idx + 1]
            /\ \E statOk \in BOOLEAN :
                 \/ /\ ~statOk
                    /\ msgs' = Append(msgs, "config does not exists")
                    /\ launched' = launched
                 \/ /\ statOk
                    /\ msgs' = msgs
                    /\ launched' = IF is_settings # 0 THEN "settings" ELSE "box"
            /\ pc' = "returned"
       ELSE \* strlen(arr[run_idx]) of a slot no name was stored in
            /\ pc' = "crashed"
            /\ UNCHANGED <<result, chosen, msgs, launched>>
    /\ UNCHANGED <<store, is_settings, clinfo, arr, pre_idx, nav, rows,
                   rendered>>

Next ==
    \/ OpenDir
    \/ ContentLen
    \/ ReadEntries
    \/ Render
    \/ KeyUp
    \/ KeyDown
    \/ KeyRight
    \/ KeyLeft
    \/ KeyOther
    \/ KeyBackspace
    \/ KeyEnter

Spec == Init /\ [][Next]_vars

\* ------------------------------------------- the directory changing outside

\* seq with x inserted so that it becomes element i.
InsertAt(seq, i, x) == SubSeq(seq, 1, i - 1) \o <<x>> \o SubSeq(seq, i, Len(seq))

\* seq without element i.
RemoveAt(seq, i) == SubSeq(seq, 1, i - 1) \o SubSeq(seq, i + 1, Len(seq))

\* The session is between its opendir() (line 389) and the end of its own
\* readdir() loop (line 426).  emu_content_len (line 396) reads the directory
\* through a second handle inside that window.  A change before the window is
\* a different initial directory; after it the directory is not read again.
StartWindow == pc \in {"opened", "sized"} /\ store.status = "Ok"

\* Another process creates an entry in the config directory; where readdir()
\* returns it is up to the file system.
StoreAdd ==
    /\ StartWindow
    /\ Len(store.dirents) < MaxListing
    /\ \E d \in SmallDirents, i \in 1..(Len(store.dirents) + 1) :
         /\ \A j \in 1..Len(store.dirents) : store.dirents[j].d_name # d.d_name
         /\ store' = Directory(InsertAt(store.dirents, i, d))
    /\ UNCHANGED <<is_settings, pc, clinfo, arr, pre_idx, nav, ch, term, rows,
                   rendered, keysRead, msgs, result, chosen, launched>>

\* Another process removes an entry of the config directory.
StoreRemove ==
    /\ StartWindow
    /\ Len(store.dirents) <= MaxListing
    /\ \E i \in 1..Len(store.dirents) :
         /\ store.dirents[i].d_name \notin {Dot, DotDot}
         /\ store' = Directory(RemoveAt(store.dirents, i))
    /\ UNCHANGED <<is_settings, pc, clinfo, arr, pre_idx, nav, ch, term, rows,
                   rendered, keysRead, msgs, result, chosen, launched>>

\* The fill loop stores more names than calloc() gave slots (lines 413-424):
\* the stores go past the allocation, and the process may die there.  The
\* other outcome, the stores landing in adjacent memory, is ReadEntries.
FillOverflow ==
    /\ pc = "sized"
    /\ Len(ReadNames(store.dirents)) > ArrSlots
    /\ pc' = "crashed"
    /\ UNCHANGED <<store, is_settings, clinfo, arr, pre_idx, nav, ch, term,
                   rows, rendered, keysRead, msgs, result, chosen, launched>>

NextExt ==
    \/ Next
    \/ StoreAdd
    \/ StoreRemove
    \/ FillOverflow

\* The session with other processes changing the config directory.
SpecExt == Init /\ [][NextExt]_vars

\* ------------------------------------------------- vocabulary of the claims

\* The session is inside the menu loop.
Browsing == pc \in {"render", "getch"}

\* The process has left emu_select_list.
Final == pc \in {"returned", "exit_success", "exit_failure"}

\* The session went through the ncurses setup.
EnteredLoop == term # "cooked"

Min(a, b) == IF a < b THEN a ELSE b

\* No entry exists at index xs + 10.
AtLastPage == pre_idx <= xs + PageStep

\* The session ended through the "out of range" branch of the render loop.
OutOfRangeAbort ==
    /\ pc = "returned"
    /\ msgs # <<>>
    /\ msgs[Len(msgs)] = "out of range"

\* The names of the regular files of the directory, "." and ".." excluded.
ListedNames ==
    { store.dirents[i].d_name : i \in
        { j \in 1..Len(store.dirents) :
            /\ store.dirents[j].d_type = DT_REG
            /\ store.dirents[j].d_name \notin {Dot, DotDot} } }

\* a sorts strictly before b in byte-wise lexicographic order.
ByteLess(a, b) ==
    \E k \in 1..(Len(a) + 1) :
        /\ \A j \in 1..(k - 1) : j <= Len(b) /\ a[j] = b[j]
        /\ \/ k = Len(a) + 1 /\ k <= Len(b)
           \/ k <= Len(a) /\ k <= Len(b) /\ a[k] < b[k]

\* Position of a name in the ascending sequence of the listed names.
Rank(name) == Cardinality({ m \in ListedNames : ByteLess(m, name) })

\* ------------------------------------------------------------------ claims

\* C1: a MoveDown (KEY_DOWN) event never leaves the cursor beyond
\* min(page_start + 9, N - 1), the last row of the displayed page.
C1_MoveDownStaysOnPage ==
    [][(pc = "getch" /\ ch' = "KEY_DOWN")
         => run_idx' <= Min(xs + PageStep - 1, pre_idx - 1)]_vars

\* C2: a MoveUp (KEY_UP) event never leaves the cursor below page_start, nor
\* below 0.
C2_MoveUpStaysOnPage ==
    [][(pc = "getch" /\ ch' = "KEY_UP")
         => (run_idx' >= xs /\ run_idx' >= 0)]_vars

C4_PrevPage ==
    /\ [](xs >= 0)
    /\ [][(pc = "getch" /\ ch' = "KEY_LEFT")
            => IF xs = 0
               THEN xs' = xs /\ run_idx' = run_idx
               ELSE /\ xs' = xs - PageStep
                    /\ run_idx' = xs'
                    /\ end_page' = 0]_vars

\* C4 witness: PrevPage has just gone back from the last page of 25 entries.
C4_Witness ==
    /\ pc = "render" /\ pre_idx = 25 /\ ch = "KEY_LEFT"
    /\ xs = 10 /\ run_idx = 10 /\ end_page = 0

\* C5: while browsing, 0 <= cursor < N, and Confirm yields the entry at
\* position cursor of the ascending sequence of the listed names; with entries
\* a.cfg, z.cfg, m.cfg and the cursor on 1 that is m.cfg.
C5_CursorInRange ==
    /\ Browsing => (pre_idx >= 1 /\ 0 <= run_idx /\ run_idx < pre_idx)
    /\ result = "Chosen"
         => /\ chosen \in ListedNames
            /\ Rank(chosen) = run_idx
            /\ pre_idx = Cardinality(ListedNames)
    /\ ( /\ result = "Chosen"
         /\ store.dirents = <<Dirent(NameACfg, DT_REG), Dirent(NameZCfg, DT_REG),
                              Dirent(NameMCfg, DT_REG)>>
         /\ run_idx = 1 )
         => chosen = NameMCfg

\* C5 witness: a.cfg, z.cfg, m.cfg, one MoveDown, Confirm yields m.cfg.
C5_Witness ==
    /\ result = "Chosen" /\ chosen = NameMCfg /\ run_idx = 1
    /\ store.dirents = <<Dirent(NameACfg, DT_REG), Dirent(NameZCfg, DT_REG),
                         Dirent(NameMCfg, DT_REG)>>

\* C6: the terminal is in raw mode exactly while the session is in the menu
\* loop: every exit (Enter, Backspace, out of range) has called endwin(), and
\* a session that never enters the loop never leaves cooked mode.
C6_TerminalReleased ==
    /\ Browsing => term = "raw"
    /\ Final => term # "raw"
    /\ pc \in {"start", "opened", "sized"} => term = "cooked"
    /\ (Final /\ (store.status # "Ok" \/ ListedNames = {})) => term = "cooked"

\* C6 witness: the out of range exit, terminal restored.
C6_Witness == OutOfRangeAbort /\ term = "restored" /\ rendered

\* C7: a directory that opens but holds no regular file ends the session with
\* the single message "no configs are available", by a normal return, without
\* terminal setup, frame, key read or launch.
C7_EmptySelection ==
    (store.status = "Ok" /\ ListedNames = {} /\ pc \notin {"start", "opened", "sized"})
        => /\ pc = "returned"
           /\ msgs = <<"no configs are available">>
           /\ term = "cooked"
           /\ ~rendered
           /\ ~keysRead
           /\ rows = 0
           /\ result = "None"
           /\ launched = "none"

\* C7 witness: a directory holding only ".", ".." and a subdirectory.
C7_Witness ==
    /\ pc = "returned" /\ pre_idx = 0 /\ Len(store.dirents) = 3
    /\ \E i \in 1..3 : store.dirents[i].d_name = NameSub

\* C8: Confirm never yields Chosen(entries[i]) for an index i at or beyond the
\* out-of-range index (9999 in the source).
C8_NoChoiceBeyondRange == result = "Chosen" => run_idx < OutOfRange

\* C9 (as stated): with more entries than the index budget no frame is
\* rendered and no key is read.
C9_AbortBeforeLoop == pre_idx > OutOfRange => (~rendered /\ ~keysRead)

\* C9 (amended): the out of range abort happens exactly when a page holding
\* the row beyond the budget is rendered, after earlier frames were shown and
\* keys read; no frame holding that row is ever shown, and the terminal is
\* restored by the abort.
C9_AbortOnRender ==
    /\ pc = "getch" => (pre_idx <= OutOfRange \/ xs + PageStep <= OutOfRange)
    /\ OutOfRangeAbort
         => /\ pre_idx > OutOfRange
            /\ xs + PageStep > OutOfRange
            /\ rendered /\ keysRead
            /\ term = "restored"
            /\ msgs = <<"out of range">>
    /\ (pc = "returned" /\ pre_idx > OutOfRange /\ xs + PageStep > OutOfRange
          /\ result = "None") => OutOfRangeAbort

\* C9 witness: the abort, on the page that holds the row beyond the budget.
C9_Witness ==
    /\ OutOfRangeAbort /\ pre_idx > OutOfRange /\ ch = "KEY_RIGHT"
    /\ xs + PageStep > OutOfRange

C11_SortedListing ==
    (store.status = "Ok" /\ pc \notin {"start", "opened", "sized"})
        => /\ Len(arr) = Cardinality(ListedNames)
           /\ pre_idx = Len(arr)
           /\ \A k \in 1..Len(arr) :
                arr[k] \in ListedNames /\ Rank(arr[k]) = k - 1
           /\ \A i, j \in 1..Len(arr) : i < j => ByteLess(arr[i], arr[j])

\* C11 witness: z.cfg, a.cfg, a enumerated in that order, with a
\* subdirectory skipped, are listed as a, a.cfg, z.cfg.
C11_Witness ==
    /\ pc = "getch"
    /\ store.dirents = <<Dirent(NameZCfg, DT_REG), Dirent(NameACfg, DT_REG),
                         Dirent(NameA, DT_REG)>>
    /\ arr = <<NameA, NameACfg, NameZCfg>>

\* C12: whenever the pager waits for a key, end_page is 1 exactly when no
\* entry exists at page_start + 10.
C12_FlagMatchesCount ==
    pc = "getch" => (end_page = 1 <=> AtLastPage)

\* C12 witness: back on the middle page of 25 entries after the last page had
\* set the flag; the flag is 0 again.
C12_Witness ==
    /\ pc = "getch" /\ pre_idx = 25 /\ ch = "KEY_LEFT"
    /\ xs = 10 /\ end_page = 0 /\ rows = 10

\* Sum and maximum of the lengths of the names of a sequence.
RECURSIVE SumLen(_)
SumLen(names) == IF names = <<>> THEN 0 ELSE Len(Head(names)) + SumLen(Tail(names))

RECURSIVE MaxLen(_)
MaxLen(names) ==
    IF names = <<>> THEN 0
    ELSE LET m == MaxLen(Tail(names))
         IN  IF Len(Head(names)) > m THEN Len(Head(names)) ELSE m

\* C13: with other processes adding and removing entries during session
\* start, the geometry and the slot count are those of the listed entries:
\* total name length, longest name and entry count agree, and the listed
\* entries leave the NULL slot after them inside the array.
C13_OneSnapshot ==
    pc \in {"render", "getch", "returned"}
        => /\ clinfo.name_sz = SumLen(arr)
           /\ clinfo.row_sz = MaxLen(arr) + RowMargin
           /\ clinfo.column_sz = Min(pre_idx, PageStep) + ColumnMargin
           /\ pre_idx <= ArrSlots - 1

=============================================================================
